---- MODULE Spec2Model ----
(***************************************************************************)
(* kafcat.py: read a Kafka topic and write its messages to stdout.         *)
(*                                                                         *)
(* The module models the script's __main__ block statement by statement.   *)
(* The kafka client library is the script's collaborator; it is modelled   *)
(* by the effect of the calls the script makes on one partition of one     *)
(* topic: the broker keeps the log, the earliest retained offset and the   *)
(* offset committed for group 'kafcat'; the consumer keeps its own cursor, *)
(* which its iterator advances when it hands a message to the for loop.    *)
(***************************************************************************)
EXTENDS Integers, Sequences, FiniteSets, TLC

VARIABLES
    argv,         \* sys.argv[1:] of the running process
    cmd_opts,     \* dict(cmd_opts): option name -> value
    cmd_args,     \* positional arguments left by getopt
    pc,           \* the statement the process is about to execute
    client,       \* None or the KafkaClient, as [host, port]
    consumer,     \* None or the SimpleConsumer, as [group, topic, iter_timeout]
    offset,       \* the consumer's cursor: the next offset it will deliver
    message,      \* the loop variable: None or [offset, value]
    stdout,       \* what was written to sys.stdout, one element per piece
    stderr,       \* what was written to sys.stderr
    exitcode,     \* None while running, else <<status>> of the exited process
    exc,          \* the exception that is propagating or ended the process
    excAt,        \* the statement that raised it
    log,          \* broker: the topic's messages, log[i] has offset i-1
    earliest,     \* broker: the earliest retained offset
    committed,    \* broker: the offset committed for (kafcat, topic)
    commits,      \* history: the commit() calls of this process, in order
    connects,     \* history: number of connection attempts of this process
    before,       \* history: broker state when this process started
    ended,        \* history: None or <<end of the topic when the process exited>>
    prev,         \* history: None or the summary of the previous process
    run           \* history: ordinal of the running process

vars == <<argv, cmd_opts, cmd_args, pc, client, consumer, offset, message,
          stdout, stderr, exitcode, exc, excAt, log, earliest, committed,
          commits, connects, before, ended, prev, run>>

procVars == <<argv, cmd_opts, cmd_args, pc, client, consumer, offset, message,
              stdout, stderr, exitcode, exc, excAt, commits, connects,
              ended>>
brokerVars == <<log, earliest, committed>>
histVars == <<before, prev, run>>

(***************************************************************************)
(* Bounds                                                                  *)
(***************************************************************************)
MaxArgs == 3
MaxLog == 3
MaxRuns == 2

(***************************************************************************)
(* Command line                                                            *)
(***************************************************************************)
Tokens == {"-b", "-f", "-x", "--host", "--port", "80", "abc"}

RECURSIVE SeqsUpTo(_, _)
SeqsUpTo(S, n) ==
    IF n = 0 THEN {<<>>}
    ELSE LET shorter == SeqsUpTo(S, n - 1)
         IN  shorter \cup {Append(s, x) : s \in shorter, x \in S}

ArgvSet == SeqsUpTo(Tokens, MaxArgs)

\* args[0].startswith('-') and args[0] != '-'
IsOption(tok) == tok \in {"-b", "-f", "-x", "--host", "--port"}
\* args[0].startswith('--')
IsLong(tok) == tok \in {"--host", "--port"}
\* the option letter of a short option token
ShortChar(tok) ==
    CASE tok = "-b" -> "b"
      [] tok = "-f" -> "f"
      [] tok = "-x" -> "x"
shortopts == {"b", "f"}
longopts == {"--host", "--port"}

\* getopt.getopt(args, 'bf', ['host=', 'port=']): options are consumed up to
\* the first non-option argument; a long option takes the next argument as
\* its value whatever it looks like.
RECURSIVE do_getopt(_, _)
do_getopt(opts, args) ==
    IF args = <<>> \/ ~IsOption(Head(args))
    THEN [err |-> FALSE, opts |-> opts, args |-> args]
    ELSE IF IsLong(Head(args))
    THEN IF Head(args) \notin longopts \/ Len(args) < 2
         THEN [err |-> TRUE, opts |-> opts, args |-> args]
         ELSE do_getopt(Append(opts, <<args[1], args[2]>>),
                        SubSeq(args, 3, Len(args)))
    ELSE IF ShortChar(Head(args)) \notin shortopts
         THEN [err |-> TRUE, opts |-> opts, args |-> args]
         ELSE do_getopt(Append(opts, <<args[1], "">>), Tail(args))

getopt(args) == do_getopt(<<>>, args)

\* dict(cmd_opts): the last occurrence of an option wins
dict(pairs) ==
    [k \in {pairs[i][1] : i \in DOMAIN pairs} |->
        LET last == CHOOSE i \in DOMAIN pairs :
                        /\ pairs[i][1] = k
                        /\ \A j \in DOMAIN pairs : pairs[j][1] = k => j <= i
        IN  pairs[last][2]]

\* a command line with two topic names slips through
arity_at_least_one(args) == Len(args) >= 1
\* len(cmd_args) != 1 leads to usage()
arity_ok(args) == Len(args) = 1

\* cmd_opts.get(key, default)
get(d, key, default) == IF key \in DOMAIN d THEN d[key] ELSE default

\* int(s): defined on decimal strings, ValueError otherwise
IntStrings == {"80", "9092"}
int(s) == CASE s = "80" -> 80 [] s = "9092" -> 9092

UsageText == "Usage"

\* Python's None; an absent object
None == <<>>

(***************************************************************************)
(* Initial state                                                           *)
(***************************************************************************)
\* the payload stored at an offset of the topic
Payloads == <<"A", "B", "C">>
Payload(off) == Payloads[(off % Len(Payloads)) + 1]
\* the topic when it holds offsets 0..n-1
Topic(n) == [i \in 1..n |-> Payload(i - 1)]

Init ==
    /\ argv \in ArgvSet
    /\ cmd_opts = <<>>
    /\ cmd_args = <<>>
    /\ pc = "start"
    /\ client = None
    /\ consumer = None
    /\ offset = 0
    /\ message = None
    /\ stdout = <<>>
    /\ stderr = <<>>
    /\ exitcode = None
    /\ exc = "None"
    /\ excAt = "None"
    /\ \E n \in 0..MaxLog : log = Topic(n)
    /\ earliest \in 0..1
    /\ earliest <= Len(log)
    /\ committed \in earliest..Len(log)
    /\ commits = <<>>
    /\ connects = 0
    /\ before = [committed |-> committed, end |-> Len(log)]
    /\ ended = None
    /\ prev = None
    /\ run = 1

(***************************************************************************)
(* Process exit                                                            *)
(***************************************************************************)
\* sys.exit(code), or an exception that reaches the top level (status 1)
Exit(code, e, at) ==
    /\ pc' = "exit"
    /\ exitcode' = <<code>>
    /\ exc' = e
    /\ excAt' = at
    /\ ended' = <<Len(log)>>

\* usage(): write the usage text to stdout and exit with status 1
usage(at) ==
    /\ stdout' = Append(stdout, UsageText)
    /\ Exit(1, "SystemExit", at)

(***************************************************************************)
(* Lines 30-39: parse the command line                                     *)
(***************************************************************************)
ParseError ==
    /\ pc = "start"
    /\ getopt(argv).err
    /\ stderr' = Append(stderr, "Error")
    /\ usage("getopt")
    /\ UNCHANGED <<argv, cmd_opts, cmd_args, client, consumer, offset, message,
                   commits, connects, brokerVars, histVars>>

ParseArity ==
    /\ pc = "start"
    /\ ~getopt(argv).err
    /\ ~arity_ok(getopt(argv).args)
    /\ cmd_opts' = dict(getopt(argv).opts)
    /\ cmd_args' = getopt(argv).args
    /\ usage("arity")
    /\ UNCHANGED <<argv, client, consumer, offset, message, stderr,
                   commits, connects, brokerVars, histVars>>

ParseOk ==
    /\ pc = "start"
    /\ ~getopt(argv).err
    /\ arity_ok(getopt(argv).args)
    /\ cmd_opts' = dict(getopt(argv).opts)
    /\ cmd_args' = getopt(argv).args
    /\ consumer' = None
    /\ pc' = "connect"
    /\ UNCHANGED <<argv, client, offset, message, stdout, stderr, exitcode,
                   exc, excAt, commits, connects, brokerVars, histVars>>
    /\ ended' = ended

(***************************************************************************)
(* Library calls, by their effect on the consumer and the broker           *)
(***************************************************************************)
\* the idle timeout is never set
iter_timeout_never(opts) == "None"
\* the idle timeout is set whatever the options
iter_timeout_always(opts) == "0.5"
\* iter_timeout = None if '-f' in cmd_opts else 0.5
iter_timeout_arg(opts) == IF "-f" \in DOMAIN opts THEN "None" ELSE "0.5"

\* the cursor starts at the earliest retained offset
fetch_earliest_offset == earliest
\* SimpleConsumer(client, group, topic): the cursor starts at the offset
\* committed for the group
fetch_last_known_offset == committed

\* whence is ignored: the seek is relative to the cursor
seek_from_cursor(off, whence) == offset + off
\* consumer.seek(off, whence): whence 0 is relative to the earliest retained
\* offset
seek(off, whence) == IF whence = 0 THEN earliest + off ELSE offset + off

\* consumer.commit(): store the consumer's cursor at the broker
commit(at) ==
    /\ committed' = offset
    /\ commits' = Append(commits, [at |-> at, offset |-> offset])

(***************************************************************************)
(* Lines 42-44: connect to Kafka                                           *)
(***************************************************************************)
\* int() raises ValueError, which no except clause catches
ConnectBadPort ==
    /\ pc = "connect"
    /\ get(cmd_opts, "--port", "9092") \notin IntStrings
    /\ Exit(1, "ValueError", "connect")
    /\ UNCHANGED <<argv, cmd_opts, cmd_args, client, consumer, offset, message,
                   stdout, stderr, commits, connects, brokerVars, histVars>>

Connect ==
    /\ pc = "connect"
    /\ get(cmd_opts, "--port", "9092") \in IntStrings
    /\ client' = [host |-> get(cmd_opts, "--host", "localhost"),
                  port |-> int(get(cmd_opts, "--port", "9092"))]
    /\ connects' = connects + 1
    /\ pc' = "construct"
    /\ UNCHANGED <<argv, cmd_opts, cmd_args, consumer, offset, message, stdout,
                   stderr, exitcode, exc, excAt, commits, brokerVars, histVars>>
    /\ ended' = ended

\* the connection is tried again after a failure
ConnectFail_retry ==
    /\ pc = "connect"
    /\ get(cmd_opts, "--port", "9092") \in IntStrings
    /\ connects' = connects + 1
    /\ exc' = "Error"
    /\ excAt' = "connect"
    /\ UNCHANGED <<argv, cmd_opts, cmd_args, pc, client, consumer, offset,
                   message, stdout, stderr, exitcode, commits, ended,
                   brokerVars, histVars>>

\* kafka.KafkaClient raises: the broker cannot be reached
ConnectFail ==
    /\ pc = "connect"
    /\ get(cmd_opts, "--port", "9092") \in IntStrings
    /\ connects' = connects + 1
    /\ Exit(1, "Error", "connect")
    /\ UNCHANGED <<argv, cmd_opts, cmd_args, client, consumer, offset, message,
                   stdout, stderr, commits, brokerVars, histVars>>

(***************************************************************************)
(* Lines 46-48: create the consumer                                        *)
(***************************************************************************)
Construct ==
    /\ pc = "construct"
    /\ consumer' = [group |-> "kafcat", topic |-> cmd_args[1],
                    iter_timeout |-> iter_timeout_arg(cmd_opts)]
    /\ offset' = fetch_last_known_offset
    /\ pc' = IF "-b" \in DOMAIN cmd_opts THEN "seek" ELSE "next"
    /\ UNCHANGED <<argv, cmd_opts, cmd_args, client, message, stdout, stderr,
                   exitcode, exc, excAt, commits, connects, brokerVars,
                   histVars>>
    /\ ended' = ended

\* kafka.SimpleConsumer raises: the topic is missing, the broker went away
ConstructFail ==
    /\ pc = "construct"
    /\ Exit(1, "Error", "construct")
    /\ UNCHANGED <<argv, cmd_opts, cmd_args, client, consumer, offset, message,
                   stdout, stderr, commits, connects, brokerVars, histVars>>

(***************************************************************************)
(* Lines 49-52: seek the very first message                                *)
(***************************************************************************)
Seek ==
    /\ pc = "seek"
    /\ offset' = seek(0, 0)
    /\ pc' = "seekcommit"
    /\ UNCHANGED <<argv, cmd_opts, cmd_args, client, consumer, message, stdout,
                   stderr, exitcode, exc, excAt, commits, connects, brokerVars,
                   histVars>>
    /\ ended' = ended

SeekCommit ==
    /\ pc = "seekcommit"
    /\ commit("seek")
    /\ pc' = "next"
    /\ UNCHANGED <<argv, cmd_opts, cmd_args, client, consumer, offset, message,
                   stdout, stderr, exitcode, exc, excAt, connects, log,
                   earliest, histVars>>
    /\ ended' = ended

(***************************************************************************)
(* Lines 54-55: the consuming loop                                         *)
(***************************************************************************)
\* the iterator hands over the message at the cursor; the cursor is advanced
\* before the message reaches the loop body
IterNext ==
    /\ pc = "next"
    /\ offset < Len(log)
    /\ message' = [offset |-> offset, value |-> log[offset + 1]]
    /\ offset' = offset + 1
    /\ pc' = "write"
    /\ UNCHANGED <<argv, cmd_opts, cmd_args, client, consumer, stdout, stderr,
                   exitcode, exc, excAt, commits, connects, brokerVars,
                   histVars>>
    /\ ended' = ended

\* no message arrived within iter_timeout: the iterator is exhausted.  With
\* iter_timeout None the iterator waits, and the process takes no step.
IterStop ==
    /\ pc = "next"
    /\ offset >= Len(log)
    /\ consumer.iter_timeout # "None"
    /\ pc' = "finalcommit"
    /\ UNCHANGED <<argv, cmd_opts, cmd_args, client, consumer, offset, message,
                   stdout, stderr, exitcode, exc, excAt, commits, connects,
                   brokerVars, histVars>>
    /\ ended' = ended

\* the newline is left out
Write_no_newline ==
    /\ pc = "write"
    /\ stdout' = Append(stdout, message.value)
    /\ pc' = "next"
    /\ UNCHANGED <<argv, cmd_opts, cmd_args, client, consumer, offset, message,
                   stderr, exitcode, exc, excAt, commits, connects, ended,
                   brokerVars, histVars>>

\* sys.stdout.write(message.message.value + '\n')
Write ==
    /\ pc = "write"
    /\ stdout' = stdout \o <<message.value, "\n">>
    /\ pc' = "next"
    /\ UNCHANGED <<argv, cmd_opts, cmd_args, client, consumer, offset, message,
                   stderr, exitcode, exc, excAt, commits, connects, brokerVars,
                   histVars>>
    /\ ended' = ended

(***************************************************************************)
(* Line 57: save the position, then the script ends                        *)
(***************************************************************************)
FinalCommit ==
    /\ pc = "finalcommit"
    /\ commit("final")
    /\ pc' = "exit"
    /\ exitcode' = <<0>>
    /\ UNCHANGED <<argv, cmd_opts, cmd_args, client, consumer, offset, message,
                   stdout, stderr, exc, excAt, connects, log, earliest,
                   histVars>>
    /\ ended' = <<Len(log)>>

(***************************************************************************)
(* Lines 58-62: KeyboardInterrupt                                          *)
(***************************************************************************)
\* the statements inside the try block
TryBlock == {"connect", "construct", "seek", "seekcommit", "next", "write",
             "finalcommit"}

\* the interrupt is raised in whatever statement of the try block is running;
\* that statement has no effect
KeyboardInterrupt ==
    /\ pc \in TryBlock
    /\ exc' = "KeyboardInterrupt"
    /\ excAt' = pc
    /\ pc' = "except"
    /\ UNCHANGED <<argv, cmd_opts, cmd_args, client, consumer, offset, message,
                   stdout, stderr, exitcode, commits, connects, brokerVars,
                   histVars>>
    /\ ended' = ended

\* the handler tests the client instead of the consumer
Except_if_client ==
    /\ pc = "except"
    /\ IF client # None
       THEN commit("interrupt")
       ELSE UNCHANGED <<committed, commits>>
    /\ pc' = "exit"
    /\ exitcode' = <<130>>
    /\ ended' = <<Len(log)>>
    /\ UNCHANGED <<argv, cmd_opts, cmd_args, client, consumer, offset, message,
                   stdout, stderr, exc, excAt, connects, log, earliest,
                   histVars>>

Except ==
    /\ pc = "except"
    /\ IF consumer # None
       THEN commit("interrupt")
       ELSE UNCHANGED <<committed, commits>>
    /\ pc' = "exit"
    /\ exitcode' = <<130>>
    /\ UNCHANGED <<argv, cmd_opts, cmd_args, client, consumer, offset, message,
                   stdout, stderr, exc, excAt, connects, log, earliest,
                   histVars>>
    /\ ended' = <<Len(log)>>

(***************************************************************************)
(* Any other exception inside the try block reaches the top level          *)
(***************************************************************************)
\* a library call on the consumer raises
BrokerFail ==
    /\ pc \in {"seek", "seekcommit", "next", "finalcommit"}
    /\ Exit(1, "Error", pc)
    /\ UNCHANGED <<argv, cmd_opts, cmd_args, client, consumer, offset, message,
                   stdout, stderr, commits, connects, brokerVars, histVars>>

\* the position is saved on the way out of a failed write
WriteFail_commit ==
    /\ pc = "write"
    /\ commit("final")
    /\ Exit(1, "Error", pc)
    /\ UNCHANGED <<argv, cmd_opts, cmd_args, client, consumer, offset, message,
                   stdout, stderr, connects, log, earliest, histVars>>

\* sys.stdout.write raises
WriteFail ==
    /\ pc = "write"
    /\ Exit(1, "Error", pc)
    /\ UNCHANGED <<argv, cmd_opts, cmd_args, client, consumer, offset, message,
                   stdout, stderr, commits, connects, brokerVars, histVars>>

(***************************************************************************)
(* Environment                                                             *)
(***************************************************************************)
\* a producer appends a message to the topic
Produce ==
    /\ Len(log) < MaxLog
    /\ log' = Append(log, Payload(Len(log)))
    /\ UNCHANGED <<procVars, earliest, committed, histVars>>

\* the user runs the program again
Restart ==
    /\ pc = "exit"
    /\ run < MaxRuns
    /\ argv' = argv
    /\ cmd_opts' = <<>>
    /\ cmd_args' = <<>>
    /\ pc' = "start"
    /\ client' = None
    /\ consumer' = None
    /\ offset' = 0
    /\ message' = None
    /\ stdout' = <<>>
    /\ stderr' = <<>>
    /\ exitcode' = None
    /\ exc' = "None"
    /\ excAt' = "None"
    /\ commits' = <<>>
    /\ connects' = 0
    /\ before' = [committed |-> committed, end |-> Len(log)]
    /\ ended' = None
    /\ prev' = [opts |-> DOMAIN cmd_opts, exitcode |-> exitcode,
                started |-> before.committed, drained |-> offset,
                committed |-> committed, end |-> ended[1]]
    /\ run' = run + 1
    /\ UNCHANGED brokerVars

Step ==
    \/ ParseError \/ ParseArity \/ ParseOk
    \/ ConnectBadPort \/ Connect
    \/ Construct
    \/ Seek \/ SeekCommit
    \/ IterNext \/ IterStop \/ Write
    \/ FinalCommit
    \/ Except

Next ==
    \/ ParseError \/ ParseArity \/ ParseOk
    \/ ConnectBadPort \/ Connect \/ ConnectFail
    \/ Construct \/ ConstructFail
    \/ Seek \/ SeekCommit
    \/ IterNext \/ IterStop \/ Write
    \/ FinalCommit
    \/ KeyboardInterrupt \/ Except
    \/ BrokerFail \/ WriteFail
    \/ Produce

\* one run of the program
Spec == Init /\ [][Next]_vars

\* the program run again and again on the same topic
RerunNext == Next \/ Restart
RerunSpec == Init /\ [][RerunNext]_vars

\* The interpreter keeps executing the script: a statement that can run does
\* run.  Interrupts, failures and producers are under no obligation.
LiveSpec == Init /\ [][Next]_vars /\ WF_vars(Step)

TypeOK ==
    /\ pc \in {"start", "connect", "construct", "seek", "seekcommit", "next",
               "write", "finalcommit", "except", "exit"}
    /\ exitcode \in {None, <<0>>, <<1>>, <<130>>}
    /\ offset \in 0..MaxLog
    /\ committed \in 0..MaxLog
    /\ Len(log) <= MaxLog

(***************************************************************************)
(* Vocabulary of the properties                                            *)
(***************************************************************************)
HasOpt(o) == o \in DOMAIN cmd_opts

\* the command line was accepted: the process got past line 38
Parsed == pc # "start" /\ excAt \notin {"getopt", "arity"}

\* number of payloads written to stdout by this process
Printed == IF Parsed THEN Len(stdout) \div 2 ELSE 0

\* where this process starts to read
StartPos == IF HasOpt("-b") THEN earliest ELSE before.committed

\* the payloads at offsets a..b-1, each followed by a newline
Lines(a, b) ==
    [i \in 1..(2 * (b - a)) |->
        IF i % 2 = 1 THEN Payload(a + (i - 1) \div 2) ELSE "\n"]

CommitsAt(at) == {i \in DOMAIN commits : commits[i].at = at}

\* the command lines the usage text describes: options, then one topic name
\* that is not an option, with a decimal --port value if one is given
RECURSIVE IsOptionList(_)
IsOptionList(s) ==
    \/ s = <<>>
    \/ Head(s) \in {"-b", "-f"} /\ IsOptionList(Tail(s))
    \/ /\ Head(s) \in {"--host", "--port"}
       /\ Len(s) >= 2
       /\ IsOptionList(SubSeq(s, 3, Len(s)))

RECURSIVE PortGiven(_, _)
PortGiven(s, port) ==
    IF s = <<>> THEN port
    ELSE IF Head(s) = "--port" THEN PortGiven(SubSeq(s, 3, Len(s)), s[2])
    ELSE IF Head(s) = "--host" THEN PortGiven(SubSeq(s, 3, Len(s)), port)
    ELSE PortGiven(Tail(s), port)

WellFormedArgv(a) ==
    /\ Len(a) >= 1
    /\ a[Len(a)] \in {"80", "abc"}
    /\ IsOptionList(SubSeq(a, 1, Len(a) - 1))
    /\ PortGiven(SubSeq(a, 1, Len(a) - 1), "9092") \in {"80", "9092"}

(***************************************************************************)
(* Properties                                                              *)
(***************************************************************************)

\* C1: the committed cursor is never ahead of the position just after the
\* last payload written to stdout: it is that position, the earliest offset
\* (after -b) or the value committed before the run.
C1_CommittedNotAheadOfPrinted ==
    Parsed =>
        committed \in {StartPos + Printed, before.committed}
                        \cup (IF HasOpt("-b") THEN {earliest} ELSE {})

\* C2: a one-shot run (no -b, no -f) whose command line was accepted always
\* comes to an end; when no exception ended it, it exits with status 0 having
\* written every message from the stored cursor up to the cursor it commits.
C2_OneShotTerminates ==
    (Parsed /\ ~HasOpt("-b") /\ ~HasOpt("-f")) ~>
        (/\ pc = "exit"
         /\ exc = "None" =>
               /\ exitcode = <<0>>
               /\ committed = offset
               /\ stdout = Lines(before.committed, offset))

C2_Witness ==
    /\ Parsed /\ ~HasOpt("-b") /\ ~HasOpt("-f")
    /\ pc = "exit"
    /\ exc = "None"
    /\ CommitsAt("final") # {}
    /\ Printed > 0
    /\ offset = Len(log)

C4_SeekEarliestBeforeOutput ==
    (Parsed /\ HasOpt("-b")) =>
        /\ pc \in {"next", "write", "finalcommit"} =>
              /\ commits # <<>>
              /\ commits[1] = [at |-> "seek", offset |-> earliest]
        /\ commits = <<>> => Printed = 0
        /\ Printed > 0 =>
              /\ commits[1] = [at |-> "seek", offset |-> earliest]
              /\ stdout[1] = Payload(earliest)

C4_Witness ==
    /\ HasOpt("-b")
    /\ before.committed > earliest
    /\ Printed > 0
    /\ stdout[1] = Payload(earliest)

\* C5 (as stated): after a one-shot run that completed normally, with no
\* message appended to the topic since it exited, a second one-shot run
\* prints nothing and leaves the committed cursor unchanged.
C5_SecondRunPrintsNothing ==
    (/\ prev # None
     /\ prev.exitcode = <<0>>
     /\ prev.opts \cap {"-b", "-f"} = {}
     /\ Parsed /\ ~HasOpt("-b") /\ ~HasOpt("-f")
     /\ Len(log) = prev.end) =>
        /\ Printed = 0
        /\ committed = prev.committed

\* C5 (amended): after a one-shot run that completed normally, with no
\* message appended to the topic since that run's message sequence ended, a
\* second one-shot run prints nothing and leaves the committed cursor
\* unchanged.
C5_SecondRunPrintsNothingSinceDrain ==
    (/\ prev # None
     /\ prev.exitcode = <<0>>
     /\ prev.opts \cap {"-b", "-f"} = {}
     /\ Parsed /\ ~HasOpt("-b") /\ ~HasOpt("-f")
     /\ Len(log) = prev.drained) =>
        /\ Printed = 0
        /\ committed = prev.committed

C5_Witness ==
    /\ prev # None
    /\ prev.exitcode = <<0>>
    /\ prev.opts \cap {"-b", "-f"} = {}
    /\ prev.committed > prev.started
    /\ Len(log) = prev.drained
    /\ pc = "exit"
    /\ exitcode = <<0>>
    /\ stdout = <<>>
    /\ committed = prev.committed

\* C6: a run whose command line is malformed (unknown flag, option without
\* its value, no or several topic names, non-decimal --port) never creates a
\* client or a consumer, never commits, and exits with status 1.
C6_InvalidArgsExitOne ==
    ~WellFormedArgv(argv) =>
        /\ pc \in {"start", "connect", "except", "exit"}
        /\ client = None
        /\ consumer = None
        /\ connects = 0
        /\ commits = <<>>
        /\ committed = before.committed
        /\ Printed = 0
        /\ (pc = "exit" /\ exc # "KeyboardInterrupt") => exitcode = <<1>>

C6_Witness ==
    /\ argv = <<"--port", "abc", "80">>
    /\ pc = "exit"
    /\ exc = "ValueError"
    /\ exitcode = <<1>>
    /\ client = None

\* C7: once KeyboardInterrupt is raised nothing more is written to stdout,
\* the process exits with status 130, and the handler commits the cursor
\* exactly when the consumer exists.
C7_InterruptCommitsIffConsumer ==
    [][exc' = "KeyboardInterrupt" =>
          /\ pc' \in {"except", "exit"}
          /\ exc = "KeyboardInterrupt" => stdout' = stdout
          /\ pc' = "except" => CommitsAt("interrupt")' = {} /\ exitcode' = None
          /\ pc' = "exit" =>
                /\ exitcode' = <<130>>
                /\ (CommitsAt("interrupt")' # {}) <=> (consumer' # None)
                /\ consumer' # None =>
                      /\ committed' = offset'
                      /\ commits'[Len(commits')] =
                            [at |-> "interrupt", offset |-> offset']
                /\ consumer' = None =>
                      commits' = <<>> /\ committed' = before'.committed]_vars

C7_Witness ==
    /\ exc = "KeyboardInterrupt"
    /\ excAt = "construct"
    /\ pc = "exit"
    /\ client # None
    /\ consumer = None
    /\ commits = <<>>
    /\ exitcode = <<130>>

\* C8: a failure while connecting or creating the consumer ends the process
\* with status 1 after a single connection attempt, with nothing written to
\* stdout and nothing committed.
C8_ConnectFailureIsFatal ==
    (exc = "Error" /\ excAt \in {"connect", "construct"}) =>
        /\ pc = "exit"
        /\ exitcode = <<1>>
        /\ connects = 1
        /\ consumer = None
        /\ stdout = <<>>
        /\ commits = <<>>
        /\ committed = before.committed

C8_Witness ==
    /\ exc = "Error"
    /\ excAt = "connect"
    /\ pc = "exit"
    /\ connects = 1
    /\ before.committed < Len(log)

\* C9: an uninterrupted one-shot run without -b exits with status 0 having
\* written the payloads from the stored cursor up to the offset it commits,
\* each followed by a newline, in order; when nothing was appended during the
\* run that offset is the end of the topic.
C9_OneShotPrintsFromCursor ==
    (Parsed /\ pc = "exit" /\ exc = "None" /\ ~HasOpt("-b")) =>
        /\ exitcode = <<0>>
        /\ ~HasOpt("-f")
        /\ stdout = Lines(before.committed, committed)
        /\ commits = <<[at |-> "final", offset |-> committed]>>
        /\ Len(log) = before.end => committed = before.end

C9_Witness ==
    /\ pc = "exit"
    /\ exc = "None"
    /\ ~HasOpt("-b")
    /\ before = [committed |-> 1, end |-> 3]
    /\ Len(log) = 3
    /\ stdout = <<"B", "\n", "C", "\n">>
    /\ committed = 3
    /\ exitcode = <<0>>

\* C10: when the loop is ended by an exception other than KeyboardInterrupt
\* the process exits with status 1 without a final commit: the committed
\* cursor is still the one from before the loop.
C10_StreamFailureSkipsCommit ==
    (exc = "Error" /\ excAt \in {"next", "write"}) =>
        /\ pc = "exit"
        /\ exitcode = <<1>>
        /\ CommitsAt("final") = {}
        /\ CommitsAt("interrupt") = {}
        /\ committed = StartPos

C10_Witness ==
    /\ exc = "Error"
    /\ excAt = "write"
    /\ Printed > 0
    /\ committed = StartPos
    /\ offset > committed + 1

====
